---- MODULE Spec2Model ----
(***************************************************************************)
(* Model of the parkapi-sources normalisation pipeline: the Kienzler pull  *)
(* converter (fetch in chunks, validate, map, optional GeoJSON overlay),   *)
(* the Bfrk converter (fetch, validate, map) and the Radvis fan-out        *)
(* mapping.                                                                *)
(*                                                                         *)
(* Conventions.  A Python Optional value is None (the empty tuple) or      *)
(* Some(v) (the one-element tuple).  A raw record (a JSON object) is a     *)
(* TLA+ record whose DOMAIN is the set of keys the object carries; a JSON  *)
(* scalar is written as its literal text.  A Python str whose characters   *)
(* matter is a sequence of one-character strings.                          *)
(***************************************************************************)
EXTENDS Integers, Sequences, FiniteSets, TLC

VARIABLES
  converter,        \* which converter was constructed
  config,           \* the configuration: the keys present and their values
  use_geojson,      \* the converter's overlay flag
  responses,        \* what the source answers to the requests of one run
  overlay,          \* the features the overlay source delivers
  feature,          \* Radvis: the validated feature to map
  pc,               \* "ready" once constructed; Radvis: "new", then "done"
  requests,         \* the network requests sent so far, in order
  extended,         \* the merge calls made by get_static_parking_sites
  static_result,    \* outcome of get_static_parking_sites
  realtime_result,  \* outcome of get_realtime_parking_sites
  radvis_result,    \* Radvis: the static inputs produced for the feature
  request_result    \* outcome of a call of _request on its own

vars == <<converter, config, use_geojson, responses, overlay, feature,
          pc, requests, extended, static_result, realtime_result, radvis_result,
          request_result>>

(***************************************************************************)
(* Bounds of the model.                                                    *)
(***************************************************************************)
\* Largest number of raw records one run fetches (over all its requests).
MaxLen == 2
\* Largest number of features the GeoJSON overlay source delivers.
MaxOverlay == 2
\* Largest number of full chunks of ids a configuration of the fetch
\* specification names (it may name one id more).
MaxChunks == 2

(***************************************************************************)
(* Generic helpers.                                                        *)
(***************************************************************************)
None == <<>>
Some(v) == <<v>>

\* dict.get(key): None when the key is absent.
Get(d, key) == IF key \in DOMAIN d THEN Some(d[key]) ELSE None

\* All sequences over S of length at most n.
SeqsUpTo(S, n) == UNION {[1..k -> S] : k \in 0..n}

\* Python slice seq[lo : hi] with 0-based bounds, clipped at the end.
Slice(seq, lo, hi) ==
  LET top == IF hi < Len(seq) THEN hi ELSE Len(seq)
  IN  IF lo >= top THEN <<>> ELSE [i \in 1..(top - lo) |-> seq[lo + i]]

RECURSIVE Flatten(_)
\* Concatenation of a sequence of sequences.
Flatten(ss) == IF ss = <<>> THEN <<>> ELSE Head(ss) \o Flatten(Tail(ss))

\* The set of elements of a sequence.
Range(seq) == {seq[i] : i \in 1..Len(seq)}

RECURSIVE KeepIn(_, _)
\* [x for x in seq if x in S]: the elements of seq that are in S, in order.
KeepIn(seq, S) ==
  IF seq = <<>> THEN <<>>
  ELSE (IF Head(seq) \in S THEN <<Head(seq)>> ELSE <<>>) \o KeepIn(Tail(seq), S)

(***************************************************************************)
(* Source info and configuration of the Kienzler converter.                *)
(***************************************************************************)
KienzlerSourceUid == "kienzler_bike_and_ride"
KienzlerPublicUrl == "https://www.bikeandridebox.de"
config_prefix == "BIKE_AND_RIDE"
KeyUser == "PARK_API_KIENZLER_" \o config_prefix \o "_USER"
KeyPassword == "PARK_API_KIENZLER_" \o config_prefix \o "_PASSWORD"
KeyIds == "PARK_API_KIENZLER_" \o config_prefix \o "_IDS"

\* KienzlerBasePullConverter.__init__: the three keys the converter declares.
\* The constructor only assigns the list; nothing reads it before a run.
required_config_keys == {KeyUser, KeyPassword, KeyIds}

\* Number of ids one POST carries.
ChunkSize == 25

RECURSIVE SplitRange(_, _, _, _)
\* str.split(sep) on the characters lo..hi of a string given as a sequence
\* of characters: the pieces between separators, so k separators yield
\* k + 1 pieces.  The range is halved, and the last piece of the left half
\* continues in the first piece of the right half.
SplitRange(s, sep, lo, hi) ==
  IF lo > hi THEN <<<<>>>>
  ELSE IF lo = hi THEN (IF s[lo] = sep THEN <<<<>>, <<>>>> ELSE <<<<s[lo]>>>>)
  ELSE LET mid == (lo + hi) \div 2
           l == SplitRange(s, sep, lo, mid)
           r == SplitRange(s, sep, mid + 1, hi)
       IN  SubSeq(l, 1, Len(l) - 1) \o <<l[Len(l)] \o Head(r)>> \o Tail(r)
Split(s, sep) == SplitRange(s, sep, 1, Len(s))

Digits == <<"0", "1", "2", "3", "4", "5", "6", "7", "8", "9">>

RECURSIVE DecChars(_)
\* str(n) for an integer n >= 0, as a sequence of characters.
DecChars(n) ==
  IF n < 10 THEN <<Digits[n + 1]>> ELSE DecChars(n \div 10) \o <<Digits[(n % 10) + 1]>>

RECURSIVE Join(_)
\* ''.join(chars): the characters as one string.
Join(chars) == IF chars = <<>> THEN "" ELSE Head(chars) \o Join(Tail(chars))

\* str(n) for an integer n >= 0.
Str(n) == Join(DecChars(n))

RECURSIVE IdsString(_)
\* A configured IDS value naming the ids 1..n: "1,2,...,n" (as characters).
IdsString(n) ==
  IF n <= 1 THEN DecChars(1) ELSE IdsString(n - 1) \o <<",">> \o DecChars(n)

\* A configuration holding the given keys; IDS names n ids.
ConfigWith(keys, n) ==
  [k \in keys |-> IF k = KeyIds THEN IdsString(n) ELSE IF k = KeyUser THEN <<"u">> ELSE <<"p">>]

\* ceil(n / ChunkSize): the number of POSTs a list of n ids needs.
NumChunks(n) == (n + ChunkSize - 1) \div ChunkSize

(***************************************************************************)
(* Responses of the sources.                                               *)
(***************************************************************************)
\* "timeout" stands for any exception of requests.post / requests.get
\* (timeout, unreachable source); "unparseable" for response.json() raising.
FaultKinds == {"timeout", "unparseable"}
JsonResponse(body) == [kind |-> "json", body |-> body]
JsonResponses(bodies) == [i \in 1..Len(bodies) |-> JsonResponse(bodies[i])]
FaultResponse(k) == [kind |-> k, body |-> <<>>]

\* Raw Kienzler records: id and sum_boxes are what the validator reads;
\* sum_boxes is the number 5 or the string "five".  The records of site "b"
\* also carry a key 'uid'.
KienzlerRaw ==
  {[id |-> "a", name |-> "box", sum_boxes |-> b] : b \in {"5", "\"five\""}}
  \cup {[id |-> "b", name |-> "box", sum_boxes |-> b, uid |-> "u"] : b \in {"5", "\"five\""}}

\* Raw Bfrk records: infraid is the identifier, lat a required number.
BfrkRaw == {[infraid |-> i, lat |-> l] : i \in {"101", "102"}, l \in {"48.1", "\"north\""}}

\* JSON literals that are numbers.
IsNumberLiteral(v) == v \in {"5", "48.1", "101", "102"}

RECURSIVE BodyRuns(_, _, _)
\* Sequences of c response bodies over Raw holding at most m records in all.
BodyRuns(Raw, c, m) ==
  IF c = 0 THEN {<<>>}
  ELSE UNION {{<<b>> \o rest : rest \in BodyRuns(Raw, c - 1, m - Len(b))} :
                b \in SeqsUpTo(Raw, m)}

\* What the source answers to the requests a run sends when c requests are
\* needed: c bodies, or fewer bodies followed by one fault (the run sends
\* nothing after a fault).
ResponseRuns(Raw, c, m) ==
  {JsonResponses(bs) : bs \in BodyRuns(Raw, c, m)}
  \cup UNION {{JsonResponses(bs) \o <<FaultResponse(f)>> :
                 bs \in BodyRuns(Raw, k, m), f \in FaultKinds} : k \in 0..(c - 1)}

(***************************************************************************)
(* Errors and results.                                                     *)
(***************************************************************************)
\* ImportParkingSiteException(source_uid, parking_site_uid, message): the
\* message embeds the raw record.
ImportParkingSiteException(source_uid, parking_site_uid, raw) ==
  [source_uid |-> source_uid, parking_site_uid |-> parking_site_uid, record |-> raw]

\* Outcome of _request: the returned list of dicts, or the fault raised.
NotRequested == [kind |-> "none", fault |-> "", result_dicts |-> <<>>]
RequestOutcome(r) ==
  IF r.fault # None THEN [kind |-> "fault", fault |-> r.fault[1], result_dicts |-> <<>>]
  ELSE [kind |-> "return", fault |-> "", result_dicts |-> r.result]

NotRun == [kind |-> "none", fault |-> "", records |-> <<>>, errors |-> <<>>]
Returned(records, errors) ==
  [kind |-> "return", fault |-> "", records |-> records, errors |-> errors]
Raised(fault) == [kind |-> "fault", fault |-> fault, records |-> <<>>, errors |-> <<>>]

(***************************************************************************)
(* Kienzler: fetch.                                                        *)
(***************************************************************************)
\* Mutant: every POST carries the whole list of ids.
KienzlerPost_AllIds(cfg, ids, i) ==
  [method |-> "POST", url |-> KienzlerPublicUrl \o "/index.php?eID=JSONAPI",
   user |-> Get(cfg, KeyUser), password |-> Get(cfg, KeyPassword),
   ids |-> ids]
\* The POST of lines 100-110 for the chunk at offset i.  ids is the split
\* IDS value: line 107 splits the same configuration value again.
KienzlerPost(cfg, ids, i) ==
  [method |-> "POST", url |-> KienzlerPublicUrl \o "/index.php?eID=JSONAPI",
   user |-> Get(cfg, KeyUser), password |-> Get(cfg, KeyPassword),
   ids |-> Slice(ids, i, i + ChunkSize)]

RECURSIVE RequestLoop(_, _, _, _, _, _)
\* The loop of _request from offset i on: sent are the POSTs so far, acc the
\* records so far.  A POST that raises, or whose body does not parse, ends
\* the call with that fault and no result.
RequestLoop(cfg, resp, ids, i, sent, acc) ==
  IF i >= Len(ids) THEN [fault |-> None, requests |-> sent, result |-> acc]
  ELSE LET post == KienzlerPost(cfg, ids, i)
           r == resp[(i \div ChunkSize) + 1]
       IN  IF r.kind # "json"
           THEN [fault |-> Some(r.kind), requests |-> Append(sent, post), result |-> <<>>]
           ELSE RequestLoop(cfg, resp, ids, i + ChunkSize, Append(sent, post),
                            acc \o r.body)

RECURSIVE RequestLoop_Swallow(_, _, _, _, _, _)
\* Mutant: a failing POST ends the loop and the records fetched so far are
\* returned as if the fetch had succeeded.
RequestLoop_Swallow(cfg, resp, ids, i, sent, acc) ==
  IF i >= Len(ids) THEN [fault |-> None, requests |-> sent, result |-> acc]
  ELSE LET post == KienzlerPost(cfg, ids, i)
           r == resp[(i \div ChunkSize) + 1]
       IN  IF r.kind # "json"
           THEN [fault |-> None, requests |-> Append(sent, post), result |-> acc]
           ELSE RequestLoop_Swallow(cfg, resp, ids, i + ChunkSize, Append(sent, post),
                                    acc \o r.body)

_request_swallow(cfg, resp) ==
  IF Get(cfg, KeyIds) = None
  THEN [fault |-> Some("AttributeError"), requests |-> <<>>, result |-> <<>>]
  ELSE LET ids == Split(cfg[KeyIds], ",")
       IN  RequestLoop_Swallow(cfg, resp, ids, 0, <<>>, <<>>)

\* KienzlerBasePullConverter._request: config_helper.get(IDS) is None when
\* the key is absent and None.split raises before any POST.
_request(cfg, resp) ==
  IF Get(cfg, KeyIds) = None
  THEN [fault |-> Some("AttributeError"), requests |-> <<>>, result |-> <<>>]
  ELSE LET ids == Split(cfg[KeyIds], ",")
       IN  RequestLoop(cfg, resp, ids, 0, <<>>, <<>>)

(***************************************************************************)
(* Kienzler: validation and mapping.                                       *)
(***************************************************************************)
\* kienzler_item_validator (DataclassValidator(KienzlerInput)): id is a
\* required string, sum_boxes a required integer.
KienzlerItemValid(d) ==
  /\ "id" \in DOMAIN d
  /\ "sum_boxes" \in DOMAIN d /\ IsNumberLiteral(d.sum_boxes)

\* The validated KienzlerInput of a raw record.
KienzlerInput(d) == [id |-> d.id, name |-> d.name, sum_boxes |-> d.sum_boxes]

KienzlerError(d) == ImportParkingSiteException(KienzlerSourceUid, Get(d, "uid"), d)

RECURSIVE KienzlerValidateLoop(_, _, _, _)
\* The loop of _get_kienzler_parking_sites over the fetched dicts.
KienzlerValidateLoop(dicts, i, inputs, errors) ==
  IF i > Len(dicts) THEN [inputs |-> inputs, errors |-> errors]
  ELSE IF KienzlerItemValid(dicts[i])
       THEN KienzlerValidateLoop(dicts, i + 1, Append(inputs, KienzlerInput(dicts[i])), errors)
       ELSE KienzlerValidateLoop(dicts, i + 1, inputs, Append(errors, KienzlerError(dicts[i])))

RECURSIVE KienzlerValidateLoop_Abort(_, _, _, _)
\* Mutant: the first validation failure ends the loop.
KienzlerValidateLoop_Abort(dicts, i, inputs, errors) ==
  IF i > Len(dicts) THEN [inputs |-> inputs, errors |-> errors]
  ELSE IF KienzlerItemValid(dicts[i])
       THEN KienzlerValidateLoop_Abort(dicts, i + 1,
                                       Append(inputs, KienzlerInput(dicts[i])), errors)
       ELSE [inputs |-> inputs, errors |-> Append(errors, KienzlerError(dicts[i]))]

\* Mutant of the validation step as a whole.
KienzlerValidateAll_Abort(dicts) == KienzlerValidateLoop_Abort(dicts, 1, <<>>, <<>>)
\* _get_kienzler_parking_sites, lines 79-94, on the fetched dicts.
KienzlerValidateAll(dicts) == KienzlerValidateLoop(dicts, 1, <<>>, <<>>)

\* _get_kienzler_parking_sites: fetch, then validate each dict.
_get_kienzler_parking_sites(cfg, resp) ==
  LET fetched == _request(cfg, resp)
      v == KienzlerValidateAll(fetched.result)
  IN  IF fetched.fault # None
      THEN [fault |-> fetched.fault, requests |-> fetched.requests,
            inputs |-> <<>>, errors |-> <<>>]
      ELSE [fault |-> None, requests |-> fetched.requests,
            inputs |-> v.inputs, errors |-> v.errors]

\* KienzlerInput.to_static_parking_site(public_url): the identifier is the
\* id, and the fields the source does not deliver stay empty.
to_static_parking_site(k, public_url) ==
  [uid |-> k.id, name |-> Some(k.name), capacity |-> Some(k.sum_boxes),
   address |-> None, public_url |-> Some(public_url)]

(***************************************************************************)
(* Kienzler: GeoJSON overlay.                                              *)
(***************************************************************************)
\* Features of the overlay source: a valid feature is keyed by uid and
\* carries a name and possibly an address; an invalid one fails validation.
OverlayFeatures ==
  {[uid |-> "a", name |-> "overlay", address |-> None, valid |-> TRUE],
   [uid |-> "a", name |-> "overlay", address |-> Some("street"), valid |-> TRUE],
   [uid |-> "c", name |-> "overlay", address |-> Some("street"), valid |-> FALSE]}

OverlayGet == [method |-> "GET", url |-> "STATIC_GEOJSON_BASE_URL/" \o KienzlerSourceUid \o ".geojson",
               user |-> None, password |-> None, ids |-> <<>>]

\* The StaticParkingSiteInput of a valid overlay feature.
OverlayInput(f) ==
  [uid |-> f.uid, name |-> Some(f.name), capacity |-> None, address |-> f.address,
   public_url |-> None]

OverlayValid(f) == f.valid
OverlayError(f) == ImportParkingSiteException(KienzlerSourceUid, Some(f.uid), f)
OverlayInvalid(f) == ~f.valid

\* _get_static_geojson_parking_sites: the overlay's valid features as static
\* inputs and one error per invalid feature, each in source order.
_get_static_geojson_parking_sites(src) ==
  LET good == KeepIn(src, {f \in Range(src) : OverlayValid(f)})
      bad == KeepIn(src, {f \in Range(src) : OverlayInvalid(f)})
  IN  [inputs |-> [i \in 1..Len(good) |-> OverlayInput(good[i])],
       errors |-> [i \in 1..Len(bad) |-> OverlayError(bad[i])]]

\* The dict built at lines 49-51: a later feature with the same uid replaces
\* an earlier one.
IndexByUid(inputs) ==
  [u \in {inputs[i].uid : i \in 1..Len(inputs)} |->
     inputs[CHOOSE i \in 1..Len(inputs) :
              /\ inputs[i].uid = u
              /\ \A j \in (i + 1)..Len(inputs) : inputs[j].uid # u]]

\* Whether an optional field is empty.
IsEmpty(v) == v = None

\* KienzlerInput.extend_static_parking_site_input(overlay entry): the merge
\* of the site's static data with the overlay entry; an overlay field is
\* taken only where the static field is empty.
extend_static_parking_site_input(k, o) ==
  LET s == to_static_parking_site(k, KienzlerPublicUrl)
  IN  [uid |-> s.uid,
       name |-> IF IsEmpty(s.name) THEN o.name ELSE s.name,
       capacity |-> IF IsEmpty(s.capacity) THEN o.capacity ELSE s.capacity,
       address |-> IF IsEmpty(s.address) THEN o.address ELSE s.address,
       public_url |-> IF IsEmpty(s.public_url) THEN o.public_url ELSE s.public_url]

(***************************************************************************)
(* Kienzler: get_static_parking_sites.                                     *)
(***************************************************************************)
\* Mutant: the returned records are the overlay entries' fields laid over
\* the mapped records.
ReturnedStaticInputs_Overwrite(sites, by_uid) ==
  [i \in 1..Len(sites) |->
     IF sites[i].id \in DOMAIN by_uid
     THEN [by_uid[sites[i].id] EXCEPT !.uid = sites[i].id]
     ELSE to_static_parking_site(sites[i], KienzlerPublicUrl)]
\* Lines 41-44 and 67: the list that is returned is the list built from the
\* validated sites before the overlay is looked at; nothing assigns to it or
\* to its elements afterwards.
ReturnedStaticInputs(sites, by_uid) ==
  [i \in 1..Len(sites) |-> to_static_parking_site(sites[i], KienzlerPublicUrl)]

\* Mutant: the overlay errors come first.
MergedErrors_Swapped(primary, geojson_errors) == geojson_errors \o primary
\* Line 53: static_parking_site_errors += geojson_parking_site_errors.
MergedErrors(primary, geojson_errors) == primary \o geojson_errors

ExtendCall(k, o) ==
  [id |-> k.id, overlay |-> o, merged |-> extend_static_parking_site_input(k, o)]

RECURSIVE ExtendLoop(_, _, _)
\* Lines 56-65: for each validated site, in order, whose str(id) is a key of
\* the overlay index, one call of extend_static_parking_site_input.
ExtendLoop(sites, by_uid, i) ==
  IF i > Len(sites) THEN <<>>
  ELSE (IF sites[i].id \notin DOMAIN by_uid THEN <<>>
        ELSE <<ExtendCall(sites[i], by_uid[sites[i].id])>>)
       \o ExtendLoop(sites, by_uid, i + 1)

\* Mutant: a site without an overlay entry is extended with an empty entry.
ExtendCalls_NoSkip(sites, by_uid) ==
  [i \in 1..Len(sites) |->
     ExtendCall(sites[i],
                IF sites[i].id \in DOMAIN by_uid THEN by_uid[sites[i].id]
                ELSE [uid |-> sites[i].id, name |-> None, capacity |-> None,
                      address |-> None, public_url |-> None])]
ExtendCalls(sites, by_uid) == ExtendLoop(sites, by_uid, 1)

\* Line 46: if self.use_geojson.
UsesOverlay(geo) == geo

\* KienzlerBasePullConverter.get_static_parking_sites: the outcome, the
\* requests sent and the merge calls made.
get_static_parking_sites(cfg, geo, resp, src) ==
  LET k == _get_kienzler_parking_sites(cfg, resp)
      g == _get_static_geojson_parking_sites(src)
      by_uid == IndexByUid(g.inputs)
  IN  IF k.fault # None
      THEN [outcome |-> Raised(k.fault[1]), requests |-> k.requests, extended |-> <<>>]
      ELSE IF ~UsesOverlay(geo)
      THEN [outcome |-> Returned(ReturnedStaticInputs(k.inputs, <<>>), k.errors),
            requests |-> k.requests, extended |-> <<>>]
      ELSE [outcome |-> Returned(ReturnedStaticInputs(k.inputs, by_uid),
                                 MergedErrors(k.errors, g.errors)),
            requests |-> Append(k.requests, OverlayGet),
            extended |-> ExtendCalls(k.inputs, by_uid)]

(***************************************************************************)
(* Bfrk: get_static_parking_sites.                                         *)
(***************************************************************************)
BfrkSourceUid == "bfrk_bw"
BfrkGet == [method |-> "GET", url |-> "source_url", user |-> None, password |-> None,
            ids |-> <<>>]

\* bfrk_validator (DataclassValidator of a BfrkBaseInput): infraid is
\* required and lat is a required number.
BfrkItemValid(d) == "infraid" \in DOMAIN d /\ "lat" \in DOMAIN d /\ IsNumberLiteral(d.lat)

\* BfrkBaseInput.to_static_parking_site_input: the identifier is the infraid.
to_static_parking_site_input(d) ==
  [uid |-> d.infraid, name |-> None, capacity |-> None, address |-> None,
   public_url |-> None]

BfrkError(d) == ImportParkingSiteException(BfrkSourceUid, Get(d, "infraid"), d)

RECURSIVE BfrkLoop(_, _, _, _)
\* Lines 33-46: validate each dict; a failure appends an error and continues
\* with the next dict.
BfrkLoop(dicts, i, inputs, errors) ==
  IF i > Len(dicts) THEN Returned(inputs, errors)
  ELSE IF BfrkItemValid(dicts[i])
       THEN BfrkLoop(dicts, i + 1, Append(inputs, to_static_parking_site_input(dicts[i])),
                     errors)
       ELSE BfrkLoop(dicts, i + 1, inputs, Append(errors, BfrkError(dicts[i])))

\* BfrkBasePushConverter.get_static_parking_sites: one GET; a fault of the
\* GET or of response.json() is not caught.
Bfrk_get_static_parking_sites(resp) ==
  [outcome |-> IF resp[1].kind # "json" THEN Raised(resp[1].kind)
               ELSE BfrkLoop(resp[1].body, 1, <<>>, <<>>),
   requests |-> <<BfrkGet>>, extended |-> <<>>]

(***************************************************************************)
(* Radvis: the fan-out mapping of one feature.                             *)
(***************************************************************************)
\* RadvisSupervisionType.to_supervision_type
to_supervision_type(u) ==
  CASE u = "KEINE" -> Some("NO")
    [] u = "VIDEO" -> Some("VIDEO")
    [] OTHER -> None

\* LocationType.to_related_location (labels written in ASCII)
to_related_location(o) ==
  CASE o = "OEFFENTLICHE_EINRICHTUNG" -> Some("Oeffentliche Einrichtung")
    [] o = "BIKE_AND_RIDE" -> Some("Bike and Ride")
    [] o = "SCHULE" -> Some("Schule")
    [] o = "STRASSENRAUM" -> Some("Strassenraum")
    [] OTHER -> None

\* RadvisParkingSiteType.to_parking_site_type
to_parking_site_type(t) ==
  CASE t = "ANLEHNBUEGEL" -> "STANDS"
    [] t = "FAHRRADBOX" -> "LOCKERS"
    [] t = "VORDERRADANSCHLUSS" -> "WALL_LOOPS"
    [] t = "DOPPELSTOECKIG" -> "TWO_TIER"
    [] t = "FAHRRADPARKHAUS" -> "BUILDING"
    [] t = "SAMMELANLAGE" -> "SHED"
    [] OTHER -> "OTHER"

RECURSIVE Replace(_, _, _)
\* str.replace(old, new) for a one-character old; new is a sequence of
\* characters (empty to delete).
Replace(s, old, new) ==
  IF s = <<>> THEN <<>>
  ELSE (IF Head(s) = old THEN new ELSE <<Head(s)>>) \o Replace(Tail(s), old, new)

\* Truthiness of an Optional[str] and of an Optional[int].
TruthyStr(o) == o # None /\ o[1] # <<>>
TruthyInt(o) == o # None /\ o[1] # 0

\* Lines 104-112: the description built from beschreibung and
\* weitere_information.
Description(p) ==
  LET d == IF TruthyStr(p.beschreibung) /\ TruthyStr(p.weitere_information)
           THEN Some(p.beschreibung[1] \o <<" ">> \o p.weitere_information[1])
           ELSE IF TruthyStr(p.beschreibung) THEN p.beschreibung
           ELSE IF TruthyStr(p.weitere_information) THEN p.weitere_information
           ELSE None
  IN  IF d = None THEN None
      ELSE Some(Replace(Replace(d[1], "\r", <<>>), "\n", <<" ">>))

\* Lines 114-123: base_data.
BaseData(p, now) ==
  [operator_name |-> p.betreiber,
   description |-> Description(p),
   has_realtime_data |-> FALSE,
   is_covered |-> p.ueberdacht,
   related_location |-> to_related_location(p.abstellanlagen_ort),
   supervision_type |-> to_supervision_type(p.ueberwacht),
   tags |-> IF TruthyStr(p.groessenklasse)
            THEN <<<<"B", "W", "_", "S", "I", "Z", "E", "_">> \o p.groessenklasse[1]>>
            ELSE <<>>,
   static_data_updated_at |-> now]

\* {**a, **b} for two dicts with disjoint keys.
DictUnion(a, b) == [k \in DOMAIN a \cup DOMAIN b |-> IF k \in DOMAIN a THEN a[k] ELSE b[k]]

ParentDict(p, now) ==
  DictUnion([uid |-> Str(p.id), name |-> "Abstellanlage",
             type |-> to_parking_site_type(p.stellplatzart),
             capacity |-> p.anzahl_stellplaetze,
             capacity_charging |-> p.anzahl_lademoeglichkeiten,
             purpose |-> "BIKE"],
            BaseData(p, now))

LockboxDict(p, now) ==
  DictUnion([uid |-> Str(p.id) \o "-lockbox", group_uid |-> Str(p.id),
             name |-> "Schliessfach", type |-> "LOCKBOX",
             capacity |-> p.anzahl_schliessfaecher[1], purpose |-> "ITEM"],
            BaseData(p, now))

\* Mutant: the lockbox record is emitted whenever the locker count is not
\* None.
to_dicts_NotNone(p, now) ==
  IF p.anzahl_schliessfaecher # None
  THEN <<DictUnion(ParentDict(p, now), [group_uid |-> Str(p.id)]), LockboxDict(p, now)>>
  ELSE <<ParentDict(p, now)>>
\* RadvisFeaturePropertiesInput.to_dicts
to_dicts(p, now) ==
  IF TruthyInt(p.anzahl_schliessfaecher)
  THEN <<DictUnion(ParentDict(p, now), [group_uid |-> Str(p.id)]), LockboxDict(p, now)>>
  ELSE <<ParentDict(p, now)>>

\* proj(lon, lat, inverse=True) followed by the quantisation to 7 digits: a
\* function of the two input coordinates, kept symbolic.
ProjInverse(x, y) == [lon |-> <<"lon", x, y>>, lat |-> <<"lat", x, y>>]

\* StaticParkingSiteInput(lat=..., lon=..., **property_dict) with lat and lon
\* then replaced by the reprojected values; a key the dict lacks takes the
\* dataclass default None.
StaticParkingSiteInput(f, d) ==
  LET c == ProjInverse(f.coordinates[1], f.coordinates[2])
  IN  [uid |-> d.uid, group_uid |-> Get(d, "group_uid"), name |-> d.name, type |-> d.type,
       capacity |-> d.capacity,
       capacity_charging |-> IF "capacity_charging" \in DOMAIN d
                             THEN d.capacity_charging ELSE None,
       purpose |-> d.purpose, operator_name |-> d.operator_name,
       description |-> d.description, has_realtime_data |-> d.has_realtime_data,
       is_covered |-> d.is_covered, related_location |-> d.related_location,
       supervision_type |-> d.supervision_type, tags |-> d.tags,
       static_data_updated_at |-> d.static_data_updated_at,
       lat |-> c.lat, lon |-> c.lon]

\* RadvisFeatureInput.to_static_parking_site_inputs_with_proj
to_static_parking_site_inputs_with_proj(f, now) ==
  LET property_dicts == to_dicts(f.properties, now)
  IN  [i \in 1..Len(property_dicts) |-> StaticParkingSiteInput(f, property_dicts[i])]

(***************************************************************************)
(* Realtime data.                                                          *)
(***************************************************************************)
\* KienzlerInput.to_realtime_parking_site: the identifier is the id.
to_realtime_parking_site(k) == [uid |-> k.id, realtime_capacity |-> Some(k.sum_boxes)]

\* Mutant: the validation errors are dropped from the realtime result.
get_realtime_parking_sites_NoErrors(cfg, resp) ==
  LET k == _get_kienzler_parking_sites(cfg, resp)
  IN  IF k.fault # None
      THEN [outcome |-> Raised(k.fault[1]), requests |-> k.requests]
      ELSE [outcome |-> Returned([i \in 1..Len(k.inputs) |->
                                   to_realtime_parking_site(k.inputs[i])], <<>>),
            requests |-> k.requests]
\* KienzlerBasePullConverter.get_realtime_parking_sites
get_realtime_parking_sites(cfg, resp) ==
  LET k == _get_kienzler_parking_sites(cfg, resp)
  IN  IF k.fault # None
      THEN [outcome |-> Raised(k.fault[1]), requests |-> k.requests]
      ELSE [outcome |-> Returned([i \in 1..Len(k.inputs) |->
                                   to_realtime_parking_site(k.inputs[i])], k.errors),
            requests |-> k.requests]

\* BfrkBasePushConverter.get_realtime_parking_sites: nothing is fetched.
Bfrk_get_realtime_parking_sites == [outcome |-> Returned(<<>>, <<>>), requests |-> <<>>]

(***************************************************************************)
(* The state machine: a converter is constructed (Init) and each of its    *)
(* calls runs once.  Nothing checks the configuration before a call.       *)
(***************************************************************************)
AllKeys == {KeyUser, KeyPassword, KeyIds}
\* Numbers of configured ids: one POST, and two POSTs.
IdCounts == {1, ChunkSize + 1}

NoFeature == [properties |-> <<>>, coordinates |-> <<>>]
Now == "2024-05-01T10:00:00+00:00"

RadvisProperties ==
  [id : {7, 12},
   betreiber : {"operator"},
   anzahl_stellplaetze : {10},
   anzahl_schliessfaecher : {None, Some(0), Some(4), Some(-1)},
   anzahl_lademoeglichkeiten : {None, Some(2)},
   ueberwacht : {"KEINE", "UNBEKANNT", "VIDEO"},
   abstellanlagen_ort : {"BIKE_AND_RIDE", "UNBEKANNT"},
   groessenklasse : {None, Some(<<>>), Some(<<"S">>)},
   stellplatzart : {"ANLEHNBUEGEL", "SONSTIGE"},
   ueberdacht : BOOLEAN,
   beschreibung : {None, Some(<<>>), Some(<<"a", "\r", "\n", "b">>)},
   weitere_information : {None, Some(<<"c", "\n">>)}]

RadvisFeatures == [properties : RadvisProperties, coordinates : {<<3, 4>>}]

InitKienzler ==
  /\ converter = "kienzler"
  /\ config \in {ConfigWith(keys, n) : keys \in SUBSET AllKeys, n \in IdCounts}
  /\ use_geojson \in BOOLEAN
  /\ responses \in
       IF KeyIds \notin DOMAIN config THEN {<<>>}
       ELSE ResponseRuns(KienzlerRaw, NumChunks(Len(Split(config[KeyIds], ","))),
                         IF AllKeys \subseteq DOMAIN config THEN MaxLen ELSE 0)
  /\ overlay \in
       IF AllKeys \subseteq DOMAIN config
       THEN SeqsUpTo(OverlayFeatures, IF use_geojson THEN MaxOverlay ELSE 1)
       ELSE {<<>>}
  /\ feature = NoFeature

InitBfrk ==
  /\ converter = "bfrk"
  /\ config = <<>>
  /\ use_geojson = FALSE
  /\ responses \in ResponseRuns(BfrkRaw, 1, MaxLen)
  /\ overlay = <<>>
  /\ feature = NoFeature

InitRadvis ==
  /\ converter = "radvis"
  /\ config = <<>>
  /\ use_geojson = FALSE
  /\ responses = <<>>
  /\ overlay = <<>>
  /\ feature \in RadvisFeatures

Init ==
  /\ (InitKienzler \/ InitBfrk \/ InitRadvis)
  /\ pc = (IF converter = "radvis" THEN "new" ELSE "ready")
  /\ requests = <<>>
  /\ extended = <<>>
  /\ static_result = NotRun
  /\ realtime_result = NotRun
  /\ radvis_result = <<>>
  /\ request_result = NotRequested

KienzlerGetStatic ==
  /\ pc = "ready"
  /\ converter = "kienzler"
  /\ static_result = NotRun
  /\ LET r == get_static_parking_sites(config, use_geojson, responses, overlay)
     IN  /\ static_result' = r.outcome
         /\ requests' = requests \o r.requests
         /\ extended' = r.extended
  /\ UNCHANGED <<converter, config, use_geojson, responses, overlay, feature,
                 pc, realtime_result, radvis_result, request_result>>

KienzlerGetRealtime ==
  /\ pc = "ready"
  /\ converter = "kienzler"
  /\ realtime_result = NotRun
  /\ LET r == get_realtime_parking_sites(config, responses)
     IN  /\ realtime_result' = r.outcome
         /\ requests' = requests \o r.requests
  /\ UNCHANGED <<converter, config, use_geojson, responses, overlay, feature,
                 pc, extended, static_result, radvis_result, request_result>>

BfrkGetStatic ==
  /\ pc = "ready"
  /\ converter = "bfrk"
  /\ static_result = NotRun
  /\ LET r == Bfrk_get_static_parking_sites(responses)
     IN  /\ static_result' = r.outcome
         /\ requests' = requests \o r.requests
         /\ extended' = r.extended
  /\ UNCHANGED <<converter, config, use_geojson, responses, overlay, feature,
                 pc, realtime_result, radvis_result, request_result>>

BfrkGetRealtime ==
  /\ pc = "ready"
  /\ converter = "bfrk"
  /\ realtime_result = NotRun
  /\ realtime_result' = Bfrk_get_realtime_parking_sites.outcome
  /\ requests' = requests \o Bfrk_get_realtime_parking_sites.requests
  /\ UNCHANGED <<converter, config, use_geojson, responses, overlay, feature,
                 pc, extended, static_result, radvis_result, request_result>>

RadvisToStaticInputs ==
  /\ pc = "new"
  /\ converter = "radvis"
  /\ radvis_result' = to_static_parking_site_inputs_with_proj(feature, Now)
  /\ pc' = "done"
  /\ UNCHANGED <<converter, config, use_geojson, responses, overlay, feature,
                 requests, extended, static_result, realtime_result, request_result>>

Next ==
  \/ KienzlerGetStatic
  \/ KienzlerGetRealtime
  \/ BfrkGetStatic
  \/ BfrkGetRealtime
  \/ RadvisToStaticInputs

Spec == Init /\ [][Next]_vars

(***************************************************************************)
(* The fetch on its own: a fully configured Kienzler converter whose IDS    *)
(* value names between one id and MaxChunks full chunks plus one id, and    *)
(* one call of _request.                                                    *)
(***************************************************************************)
\* Numbers of configured ids: one, two, and each multiple of the chunk size
\* with its two neighbours.
RequestIdCounts ==
  {1, 2} \cup UNION {{k * ChunkSize - 1, k * ChunkSize, k * ChunkSize + 1} : k \in 1..MaxChunks}

InitRequest ==
  /\ converter = "kienzler"
  /\ config \in {ConfigWith(AllKeys, n) : n \in RequestIdCounts}
  /\ use_geojson = FALSE
  /\ responses \in ResponseRuns(KienzlerRaw, NumChunks(Len(Split(config[KeyIds], ","))),
                                 MaxLen)
  /\ overlay = <<>>
  /\ feature = NoFeature
  /\ pc = "ready"
  /\ requests = <<>>
  /\ extended = <<>>
  /\ static_result = NotRun
  /\ realtime_result = NotRun
  /\ radvis_result = <<>>
  /\ request_result = NotRequested

KienzlerRequest ==
  /\ pc = "ready"
  /\ converter = "kienzler"
  /\ request_result = NotRequested
  /\ LET r == _request(config, responses)
     IN  /\ request_result' = RequestOutcome(r)
         /\ requests' = requests \o r.requests
  /\ UNCHANGED <<converter, config, use_geojson, responses, overlay, feature,
                 pc, extended, static_result, realtime_result, radvis_result>>

NextRequest == KienzlerRequest

SpecRequest == InitRequest /\ [][NextRequest]_vars

(***************************************************************************)
(* Vocabulary of the properties.                                           *)
(***************************************************************************)
IsJson(r) == r.kind = "json"
\* The raw records of a run none of whose requests failed.
Fetched == Flatten([i \in 1..Len(responses) |-> responses[i].body])
NoFetchFault == \A i \in 1..Len(responses) : IsJson(responses[i])
\* The IDS value is configured, so that _request reaches its loop.
IdsConfigured == KeyIds \in DOMAIN config

IsKienzler == converter = "kienzler"
IsBfrk == converter = "bfrk"
StaticRan == static_result.kind \in {"return", "fault"} /\ pc = "ready"
StaticReturned == static_result.kind = "return"

ItemValid(d) == IF IsKienzler THEN KienzlerItemValid(d) ELSE BfrkItemValid(d)
ItemInvalid(d) == ~ItemValid(d)
\* The fetched records that pass, and that fail, validation, in input order.
ValidFetched == KeepIn(Fetched, {d \in Range(Fetched) : ItemValid(d)})
InvalidFetched == KeepIn(Fetched, {d \in Range(Fetched) : ItemInvalid(d)})
\* The raw field that holds a record's identifier: KienzlerInput.id
\* (converter.py line 58) and the infraid of a Bfrk record.
IdentifierOf(d) == IF IsKienzler THEN d.id ELSE d.infraid
SourceUidOfConverter == IF IsKienzler THEN KienzlerSourceUid ELSE BfrkSourceUid

Uids(records) == [i \in 1..Len(records) |-> records[i].uid]
\* An error made for a fetched record (an overlay feature has a valid flag).
IsPrimaryError(e) == "valid" \notin DOMAIN e.record
IsOverlayError(e) == ~IsPrimaryError(e)
PrimaryErrors ==
  KeepIn(static_result.errors, {e \in Range(static_result.errors) : IsPrimaryError(e)})

\* The records the mapping step produces for the valid fetched records.
MappedOf(d) == to_static_parking_site(KienzlerInput(d), KienzlerPublicUrl)
Mapped == [i \in 1..Len(ValidFetched) |-> MappedOf(ValidFetched[i])]

\* The keys of the overlay index.
OverlayUids == {overlay[i].uid : i \in {j \in 1..Len(overlay) : overlay[j].valid}}
\* The overlay entry the index holds for a uid: the last valid one.
OverlayEntry(u) ==
  OverlayInput(overlay[CHOOSE i \in 1..Len(overlay) :
                         /\ overlay[i].valid /\ overlay[i].uid = u
                         /\ \A j \in (i + 1)..Len(overlay) :
                              ~(overlay[j].valid /\ overlay[j].uid = u)])
StaticFields == {"name", "capacity", "address", "public_url"}

(***************************************************************************)
(* C1.  Validation errors are accumulated, never fatal: in the Bfrk         *)
(* get_static_parking_sites and in _get_kienzler_parking_sites every        *)
(* fetched record that fails validation yields exactly one                  *)
(* ImportParkingSiteException and is skipped, later records are still       *)
(* processed, produced + errors = fetched, and the produced records are in  *)
(* input order.                                                             *)
(***************************************************************************)
C1_ErrorsAccumulate ==
  (StaticRan /\ StaticReturned) =>
    /\ Len(static_result.records) + Len(PrimaryErrors) = Len(Fetched)
    /\ Uids(static_result.records) =
         [i \in 1..Len(ValidFetched) |-> IdentifierOf(ValidFetched[i])]
    /\ [i \in 1..Len(PrimaryErrors) |-> PrimaryErrors[i].record] = InvalidFetched

\* A Kienzler run returned for a batch whose first record is invalid and
\* whose second record is valid.
C1_Witness ==
  /\ IsKienzler /\ StaticRan /\ StaticReturned
  /\ Len(Fetched) >= 2 /\ ItemInvalid(Fetched[1]) /\ ItemValid(Fetched[2])
  /\ Len(static_result.records) >= 1 /\ Len(PrimaryErrors) >= 1

(***************************************************************************)
(* C2.  With use_geojson, n well-formed records and an overlay holding an   *)
(* entry for each of the n identifiers: n static records are returned,      *)
(* their previously empty fields hold the overlay entry's values, and the   *)
(* error list is empty.                                                     *)
(***************************************************************************)
C2_OverlayPopulates ==
  (/\ IsKienzler /\ StaticRan /\ use_geojson /\ NoFetchFault
   /\ \A i \in 1..Len(Fetched) : KienzlerItemValid(Fetched[i])
   /\ \A i \in 1..Len(Fetched) : Fetched[i].id \in OverlayUids
   /\ \A i \in 1..Len(overlay) : overlay[i].valid)
  => /\ StaticReturned
     /\ Len(static_result.records) = Len(Fetched)
     /\ static_result.errors = <<>>
     /\ \A i \in 1..Len(static_result.records) : \A f \in StaticFields :
          IsEmpty(Mapped[i][f]) =>
            static_result.records[i][f] = OverlayEntry(Mapped[i].uid)[f]

(***************************************************************************)
(* C3.  The merge is non-destructive: with the overlay enabled, every       *)
(* field that is non-empty in the record the mapping step produced has the  *)
(* same value in the returned record, whatever the overlay entry holds.     *)
(***************************************************************************)
C3_MergeNonDestructive ==
  (IsKienzler /\ StaticRan /\ StaticReturned /\ use_geojson) =>
    /\ Len(static_result.records) = Len(Mapped)
    /\ \A i \in 1..Len(Mapped) :
         /\ static_result.records[i].uid = Mapped[i].uid
         /\ \A f \in StaticFields :
              ~IsEmpty(Mapped[i][f]) => static_result.records[i][f] = Mapped[i][f]

\* A merge call was made with an overlay entry whose name differs from the
\* non-empty name of the mapped record.
C3_Witness ==
  /\ IsKienzler /\ StaticRan /\ StaticReturned /\ use_geojson
  /\ \E i \in 1..Len(extended) : \E j \in 1..Len(Mapped) :
       /\ extended[i].id = Mapped[j].uid
       /\ ~IsEmpty(Mapped[j].name)
       /\ extended[i].overlay.name # Mapped[j].name

(***************************************************************************)
(* C4.  A fetch-level fault of any request of a run, a later chunk of a     *)
(* multi-request Kienzler fetch included, propagates out of                 *)
(* get_static_parking_sites / get_realtime_parking_sites: the call raises   *)
(* that fault, returns no (records, errors) pair and no records of earlier  *)
(* chunks, and the fault is not put into the error list.                    *)
(***************************************************************************)
FaultOfRun == responses[Len(responses)].kind
C4_FetchFaultPropagates ==
  (pc = "ready" /\ ~NoFetchFault) =>
    /\ static_result \in {NotRun, Raised(FaultOfRun)}
    /\ (IsKienzler => realtime_result \in {NotRun, Raised(FaultOfRun)})

\* Both Kienzler calls ran on a two-request fetch whose first response
\* delivered records and whose second request failed.
C4_Witness ==
  /\ IsKienzler /\ pc = "ready"
  /\ Len(responses) = 2 /\ IsJson(responses[1]) /\ responses[1].body # <<>>
  /\ ~IsJson(responses[2])
  /\ static_result.kind = "fault" /\ realtime_result.kind = "fault"
  /\ Len(requests) = 4

(***************************************************************************)
(* C5.  With use_geojson the overlay-load errors are appended to the list   *)
(* of primary validation errors (primary first, then overlay), the run      *)
(* still returns and no primary record is removed; without use_geojson the  *)
(* overlay is never requested and the list holds the primary errors only.   *)
(* Stated for the runs whose fetch completes: IDS is configured and no      *)
(* request fails.                                                           *)
(***************************************************************************)
ExpectedPrimaryErrors == [i \in 1..Len(InvalidFetched) |-> KienzlerError(InvalidFetched[i])]
InvalidOverlay == KeepIn(overlay, {f \in Range(overlay) : ~f.valid})
ExpectedOverlayErrors == [i \in 1..Len(InvalidOverlay) |-> OverlayError(InvalidOverlay[i])]
OverlayRequested == \E i \in 1..Len(requests) : requests[i] = OverlayGet

C5_OverlayErrorsAppended ==
  (IsKienzler /\ StaticRan /\ IdsConfigured /\ NoFetchFault) =>
    /\ StaticReturned
    /\ Uids(static_result.records) = Uids(Mapped)
    /\ IF use_geojson
       THEN /\ static_result.errors = ExpectedPrimaryErrors \o ExpectedOverlayErrors
            /\ OverlayRequested
       ELSE /\ static_result.errors = ExpectedPrimaryErrors
            /\ ~OverlayRequested

\* An overlay run returned records together with a primary error and an
\* overlay error.
C5_Witness ==
  /\ IsKienzler /\ StaticRan /\ StaticReturned /\ use_geojson
  /\ ExpectedPrimaryErrors # <<>> /\ ExpectedOverlayErrors # <<>>
  /\ static_result.records # <<>>
  /\ Len(static_result.errors) >= 2

(***************************************************************************)
(* C6.  An overlay lookup miss is not an error: a primary record whose      *)
(* identifier is no key of the overlay index is returned as mapped, no      *)
(* merge call is made for it and nothing is added to the error list; an     *)
(* overlay entry whose identifier matches no primary record does not        *)
(* appear in the returned list.                                             *)
(***************************************************************************)
C6_LookupMissPassesThrough ==
  (IsKienzler /\ StaticRan /\ StaticReturned /\ use_geojson) =>
    /\ Len(static_result.records) = Len(Mapped)
    /\ \A i \in 1..Len(Mapped) :
         Mapped[i].uid \notin OverlayUids =>
           /\ static_result.records[i] = Mapped[i]
           /\ \A j \in 1..Len(extended) : extended[j].id # Mapped[i].uid
    /\ Len(static_result.errors) = Len(ExpectedPrimaryErrors) + Len(ExpectedOverlayErrors)
    /\ \A u \in OverlayUids :
         (\A i \in 1..Len(Mapped) : Mapped[i].uid # u) =>
           \A i \in 1..Len(static_result.records) : static_result.records[i].uid # u

\* An overlay run returned a record that has no overlay entry while the
\* overlay holds an entry that matches no primary record.
C6_Witness ==
  /\ IsKienzler /\ StaticRan /\ StaticReturned /\ use_geojson
  /\ OverlayUids # {}
  /\ Len(Mapped) >= 1
  /\ \A i \in 1..Len(Mapped) : Mapped[i].uid \notin OverlayUids
  /\ extended = <<>>

(***************************************************************************)
(* C7.  Fan-out of one Radvis feature.                                      *)
(***************************************************************************)
RadvisRan == converter = "radvis" /\ pc = "done"
Lockers == feature.properties.anzahl_schliessfaecher
RadvisFields ==
  {"uid", "group_uid", "name", "type", "capacity", "capacity_charging", "purpose",
   "operator_name", "description", "has_realtime_data", "is_covered",
   "related_location", "supervision_type", "tags", "static_data_updated_at",
   "lat", "lon"}
\* The fields the claim lets the records differ in, and the fields they do
\* differ in.
ClaimedDifferent == {"uid", "group_uid", "purpose", "capacity"}
ActuallyDifferent == ClaimedDifferent \cup {"name", "type", "capacity_charging"}

FanOutCount ==
  /\ (Lockers # None /\ Lockers[1] > 0) => Len(radvis_result) = 2
  /\ (Lockers = None \/ Lockers[1] = 0) => Len(radvis_result) = 1

SharedOutside(different) ==
  \A i, j \in 1..Len(radvis_result) : \A f \in RadvisFields \ different :
    radvis_result[i][f] = radvis_result[j][f]

\* C7 as claimed: a record with N implied ancillary facilities (N = 1 for a
\* positive locker count, N = 0 for a null or zero one) yields 1 + N
\* records, identical in every field except identifier, group identifier,
\* purpose and capacity.
C7_FanOutAsClaimed ==
  (RadvisRan /\ (Lockers = None \/ Lockers[1] >= 0)) =>
    (FanOutCount /\ SharedOutside(ClaimedDifferent))

\* C7 as amended: 1 + N records, identical in every field except
\* identifier, group identifier, purpose, capacity, name, type and
\* capacity_charging.
C7_FanOut == RadvisRan => (FanOutCount /\ SharedOutside(ActuallyDifferent))

\* A feature with lockers, charging places and a description was mapped to
\* two records.
C7_Witness ==
  /\ RadvisRan /\ Len(radvis_result) = 2
  /\ Lockers # None /\ Lockers[1] > 0
  /\ feature.properties.anzahl_lademoeglichkeiten # None
  /\ radvis_result[1].description # None
  /\ radvis_result[2].uid = radvis_result[1].uid \o "-lockbox"

(***************************************************************************)
(* C8.  All static records one run returns have non-empty, pairwise         *)
(* distinct identifiers, whatever raw records pass validation (two raw      *)
(* records with the same source id included), and so have the records a     *)
(* Radvis feature fans out into.                                            *)
(***************************************************************************)
DistinctUids(records) ==
  /\ \A i \in 1..Len(records) : records[i].uid # ""
  /\ \A i, j \in 1..Len(records) : i # j => records[i].uid # records[j].uid

C8_UniqueIdentifiers ==
  /\ (StaticRan /\ StaticReturned) => DistinctUids(static_result.records)
  /\ RadvisRan => DistinctUids(radvis_result)

(***************************************************************************)
(* C9.  A Kienzler converter with one of USER, PASSWORD, IDS absent fails   *)
(* with a fault before any network request: no POST and no overlay fetch    *)
(* is ever sent, and no call returns.                                       *)
(***************************************************************************)
C9_FailFastOnMissingConfig ==
  (IsKienzler /\ ~(required_config_keys \subseteq DOMAIN config)) =>
    /\ requests = <<>>
    /\ static_result.kind \in {"none", "fault"}
    /\ realtime_result.kind \in {"none", "fault"}

(***************************************************************************)
(* C10.  Every ImportParkingSiteException made for a record that fails      *)
(* validation carries the converter's source uid and the record's own       *)
(* identifier, the value of the raw field a valid record's identifier is    *)
(* taken from; one malformed record among n yields n - 1 records and one    *)
(* such error.                                                              *)
(***************************************************************************)
C10_ErrorCarriesIdentifier ==
  (StaticRan /\ StaticReturned) =>
    /\ \A i \in 1..Len(PrimaryErrors) :
         /\ PrimaryErrors[i].source_uid = SourceUidOfConverter
         /\ PrimaryErrors[i].parking_site_uid = Some(IdentifierOf(PrimaryErrors[i].record))
    /\ Len(InvalidFetched) = 1 =>
         /\ Len(static_result.records) = Len(Fetched) - 1
         /\ Len(PrimaryErrors) = 1

(***************************************************************************)
(* C11.  For the same fetched payload, the Kienzler                         *)
(* get_realtime_parking_sites returns exactly one realtime record per raw   *)
(* record that passes validation, in input order, with the validation       *)
(* errors get_static_parking_sites returns without overlay; the two record  *)
(* lists have equal length and every realtime identifier is the identifier  *)
(* of a returned static record; the overlay is never requested for          *)
(* realtime data.                                                           *)
(***************************************************************************)
RealtimeReturned == IsKienzler /\ pc = "ready" /\ realtime_result.kind = "return"
\* The number of overlay requests among the requests sent so far.
OverlayRequests == Cardinality({i \in 1..Len(requests) : requests[i] = OverlayGet})

C11_RealtimeMatchesStatic ==
  RealtimeReturned =>
    /\ Uids(realtime_result.records) =
         [i \in 1..Len(ValidFetched) |-> IdentifierOf(ValidFetched[i])]
    /\ realtime_result.errors = ExpectedPrimaryErrors
    /\ OverlayRequests = (IF StaticReturned /\ use_geojson THEN 1 ELSE 0)
    /\ StaticRan =>
         /\ StaticReturned
         /\ Len(realtime_result.records) = Len(static_result.records)
         /\ \A i \in 1..Len(realtime_result.records) :
              realtime_result.records[i].uid \in Range(Uids(static_result.records))
         /\ realtime_result.errors = PrimaryErrors
         /\ ~use_geojson => realtime_result.errors = static_result.errors

\* Only the realtime call ran, on a converter with the overlay enabled and a
\* non-empty overlay, for a batch with a valid and an invalid record.
C11_Witness ==
  /\ RealtimeReturned /\ static_result = NotRun
  /\ use_geojson /\ overlay # <<>>
  /\ ValidFetched # <<>> /\ InvalidFetched # <<>>
  /\ Len(realtime_result.records) = Len(ValidFetched)
  /\ realtime_result.errors # <<>>
  /\ requests # <<>>

(***************************************************************************)
(* C12.  Kienzler _request, for a configured list of n >= 1                 *)
(* comma-separated ids, sends exactly ceil(n / 25) POST requests; the k-th  *)
(* request (k from 0) carries the ids at positions 25k to                   *)
(* min(25k + 25, n) - 1 in configured order, so every configured id is sent *)
(* in exactly one request and no request carries more than 25 ids; the      *)
(* returned list is the concatenation of the responses in request order.    *)
(* A call one of whose POSTs fails has sent the chunks up to the failing    *)
(* one and returns nothing.                                                 *)
(***************************************************************************)
RequestRan == request_result.kind # "none"
\* n: one more than the number of commas of the configured IDS value.
NumIds == Cardinality({i \in 1..Len(config[KeyIds]) : config[KeyIds][i] = ","}) + 1
\* The id at position p (from 0) of the configured list "1,2,...,n".
ConfiguredId(p) == DecChars(p + 1)
\* The ids at positions 25k to min(25k + 25, n) - 1.
ExpectedChunk(k) ==
  LET lo == 25 * k
      hi == IF lo + 25 < NumIds THEN lo + 25 ELSE NumIds
  IN  [j \in 1..(hi - lo) |-> ConfiguredId(lo + j - 1)]
\* The places (request, position) at which an id was sent.
SentAt(id) ==
  {<<k, j>> \in (1..Len(requests)) \X (1..25) :
     j <= Len(requests[k].ids) /\ requests[k].ids[j] = id}

C12_ChunkedRequests ==
  RequestRan =>
    /\ \A k \in 1..Len(requests) :
         /\ requests[k].method = "POST"
         /\ requests[k].ids = ExpectedChunk(k - 1)
         /\ Len(requests[k].ids) \in 1..25
    /\ IF NoFetchFault
       THEN /\ request_result.kind = "return"
            /\ 25 * (Len(requests) - 1) < NumIds /\ NumIds <= 25 * Len(requests)
            /\ \A p \in 0..(NumIds - 1) : Cardinality(SentAt(ConfiguredId(p))) = 1
            /\ request_result.result_dicts = Fetched
       ELSE /\ request_result.kind = "fault"
            /\ request_result.result_dicts = <<>>
            /\ Len(requests) = Len(responses)

\* A call for 51 ids returned: three POSTs, the last with one id, and the
\* returned list holds two different records that came in different
\* responses.
C12_Witness ==
  /\ RequestRan /\ NoFetchFault
  /\ NumIds = 2 * 25 + 1
  /\ Len(requests) = 3 /\ requests[3].ids = <<ConfiguredId(50)>>
  /\ responses[1].body # <<>> /\ responses[3].body # <<>>
  /\ responses[1].body # responses[3].body
  /\ Len(request_result.result_dicts) = 2

====
